---------------------------- MODULE Spec2Model ----------------------------
(***************************************************************************)
(* NovaCall operations console (src/app/page.tsx, component HomePage).     *)
(*                                                                         *)
(* The state is the ten useState cells of HomePage plus the two sources of *)
(* fresh values the handlers read (makeId, Date.now).  Every action is one *)
(* event handler run to completion, followed by the render React performs  *)
(* before it dispatches the next event.  A handler reads the cells in two  *)
(* ways: through its closure (the values of the last render, `view`) and   *)
(* through the functional updaters it queues (the committed values).       *)
(*                                                                         *)
(* A text is a sequence of tokens: the token " " (and "\n") is white       *)
(* space, any other token is a run of non-blank characters.  The empty     *)
(* string is <<>>.  An optional value (string | null, T | undefined) is a  *)
(* sequence of length 0 or 1.                                              *)
(***************************************************************************)
EXTENDS Integers, Sequences, FiniteSets, TLC

VARIABLES
    draftPlan,                \* useState<CallPlan>(defaultPlan)
    activePlan,               \* useState<CallPlan>(defaultPlan)
    callStatus,               \* "idle" | "live" | "handoff"
    consentToSummarize,
    summaryNotes,
    callLog,                  \* CallMessage[] in insertion order
    callerEntry,              \* pending input buffer of the caller form
    clarificationsUsed,
    recordingDisclosureMade,
    handoffReason,            \* string | null
    nextId,                   \* state of the identifier generator makeId
    now,                      \* the clock read by Date.now()
    view,                     \* the cell values of the last render
    lastOp,                   \* history: the operation performed last
    sinceLoad,                \* history: handler calls since the last load
    script,                   \* history: progress through SeedScript
    spent                     \* history: effort spent so far

plan    == <<draftPlan, activePlan>>
session == <<callStatus, consentToSummarize, summaryNotes, callLog,
             callerEntry, clarificationsUsed, recordingDisclosureMade,
             handoffReason>>
env     == <<nextId, now>>
hist    == <<lastOp, sinceLoad, script, spent>>
vars    == <<draftPlan, activePlan, callStatus, consentToSummarize,
             summaryNotes, callLog, callerEntry, clarificationsUsed,
             recordingDisclosureMade, handoffReason, nextId, now, view,
             lastOp, sinceLoad, script, spent>>

---------------------------------------------------------------------------
(* Bounds of the exploration.                                              *)

MaxCost == 5       \* effort spent in one behaviour (see Cost)
MaxTime == 1       \* last clock value

---------------------------------------------------------------------------
(* Generic helpers.                                                        *)

Null == <<>>
Some(v) == <<v>>

Last(s) == s[Len(s)]
Front(s) == SubSeq(s, 1, Len(s) - 1)
Elems(s) == {s[i] : i \in 1..Len(s)}

\* list.filter((_, idx) => idx !== index), scanning from position i
RECURSIVE filterIndex(_, _, _)
filterIndex(list, index, i) ==
    IF i > Len(list) THEN <<>>
    ELSE IF i - 1 # index
         THEN <<list[i]>> \o filterIndex(list, index, i + 1)
         ELSE filterIndex(list, index, i + 1)

\* object spread { ...point, ...value }
Spread(point, value) ==
    [f \in DOMAIN point \cup DOMAIN value |->
        IF f \in DOMAIN value THEN value[f] ELSE point[f]]

WhiteSpace == {" ", "\n"}

RECURSIVE trimStart(_)
trimStart(s) ==
    IF s = <<>> THEN <<>>
    ELSE IF Head(s) \in WhiteSpace THEN trimStart(Tail(s)) ELSE s

RECURSIVE trimEnd(_)
trimEnd(s) ==
    IF s = <<>> THEN <<>>
    ELSE IF Last(s) \in WhiteSpace THEN trimEnd(Front(s)) ELSE s

\* faulty variant: only the leading white space is removed
trim_leadingOnly(s) == trimStart(s)

\* String.prototype.trim
trim(s) == trimEnd(trimStart(s))

---------------------------------------------------------------------------
(* Program constants.                                                      *)

TransferAnnouncement == <<"Let me connect you directly with Manohar.">>
FallbackClarification ==
    <<"I'm assisting Manohar today-could you share a little more?">>

defaultPlan ==
    [ phoneNumber |-> <<"+1 (415) 555-0198">>,
      purpose |-> <<"Follow up on AI/ML job application status">>,
      openingDisclosure |-> <<"Hi, this is NovaCall supporting Manohar Kumar Sah.">>,
      talkingPoints |-> <<
          [id |-> 1, content |-> <<"Ask if they received Manohar's follow-up email.">>,
           emphasis |-> "high", delivered |-> FALSE],
          [id |-> 2, content |-> <<"Confirm availability for a 20-minute call.">>,
           emphasis |-> "medium", delivered |-> FALSE],
          [id |-> 3, content |-> <<"Offer to share additional project highlights.">>,
           emphasis |-> "low", delivered |-> FALSE] >>,
      clarifications |-> <<
          <<"I'm helping Manohar with scheduling-could you clarify your question?">>,
          <<"I'm here to keep this brief for you.">> >>,
      handoffConditions |-> <<
          <<"Caller requests to speak with Manohar directly.">>,
          <<"Caller is silent for more than 5 seconds after a follow-up.">>,
          <<"Caller asks for details beyond the provided briefing.">> >>,
      additionalNotes |-> <<"Inform the caller if recording or summarizing.">> ]

\* identifiers handed out by makeId while defaultPlan was built
SeedIds == 3

---------------------------------------------------------------------------
(* Inputs of the handlers.                                                 *)

UnknownId == 0

FieldInputs ==
    { <<"openingDisclosure", <<"Hello,", " ", "edited disclosure.">> >>,
      <<"clarifications", <<>> >>,
      <<"clarifications", << <<"Could you repeat that?">> >> >> }

PartialInputs ==
    { [content |-> <<"Edited point.">>],
      [emphasis |-> "medium"],
      [delivered |-> TRUE] }

\* zero-based positions tried on a list: first, last, one past the end
IndexInputs(list) == {0, Len(list)} \cup ({Len(list) - 1} \cap Nat)

ConditionInputs == { <<"Caller is upset.">> }

TextInputs ==
    { <<" ", "\n">>, <<" ", "hello", " ", "there", "\n">> }

SummaryInputs == { <<"Call back on Friday.">> }

---------------------------------------------------------------------------
(* Rendering: HomePage reads its cells and recomputes the derived values.  *)

\* the values the useState calls return to a render
committed ==
    [ draftPlan |-> draftPlan, activePlan |-> activePlan,
      callStatus |-> callStatus, consentToSummarize |-> consentToSummarize,
      summaryNotes |-> summaryNotes, callLog |-> callLog,
      callerEntry |-> callerEntry, clarificationsUsed |-> clarificationsUsed,
      recordingDisclosureMade |-> recordingDisclosureMade,
      handoffReason |-> handoffReason ]

\* faulty variant: the handlers keep the closure of the first render
Rendered_stale == UNCHANGED view

\* the updates a handler queued are flushed and HomePage renders again
\* before the next event is dispatched
Rendered == view' = committed'


\* faulty variant: the search runs from the end of the list
RECURSIVE findLast(_, _)
findLast(points, i) ==
    IF i > Len(points) THEN Null
    ELSE IF ~points[Len(points) + 1 - i].delivered
         THEN Some(points[Len(points) + 1 - i])
         ELSE findLast(points, i + 1)

\* activePlan.talkingPoints.find((point) => !point.delivered)
RECURSIVE find(_, _)
find(points, i) ==
    IF i > Len(points) THEN Null
    ELSE IF ~points[i].delivered THEN Some(points[i])
         ELSE find(points, i + 1)

nextTalkingPoint == find(view.activePlan.talkingPoints, 1)

\* faulty variant: the comparison is off by one
canUseClarification_offByOne ==
    view.clarificationsUsed <= Len(view.activePlan.clarifications)

canUseClarification ==
    view.clarificationsUsed < Len(view.activePlan.clarifications)

\* the comparator (a, b) => a.timestamp - b.timestamp
compare(a, b) == a.timestamp - b.timestamp

\* faulty variant: an entry overtakes the entries that compare equal to it
RECURSIVE insertSorted_unstable(_, _)
insertSorted_unstable(sorted, entry) ==
    IF sorted = <<>> THEN <<entry>>
    ELSE IF compare(Last(sorted), entry) >= 0
         THEN insertSorted_unstable(Front(sorted), entry) \o <<Last(sorted)>>
         ELSE sorted \o <<entry>>

\* Array.prototype.sort is stable: an entry moves in front of the entries
\* that compare greater than it, and of no other
RECURSIVE insertSorted(_, _)
insertSorted(sorted, entry) ==
    IF sorted = <<>> THEN <<entry>>
    ELSE IF compare(Last(sorted), entry) > 0
         THEN insertSorted(Front(sorted), entry) \o <<Last(sorted)>>
         ELSE sorted \o <<entry>>

\* [...list].sort(compare)
RECURSIVE sort(_)
sort(list) ==
    IF list = <<>> THEN <<>>
    ELSE insertSorted(sort(Front(list)), Last(list))

sortedLog == sort(view.callLog)

\* faulty variant: the filter keeps the points still to deliver
completedTalkingPoints_pending ==
    Len(SelectSeq(view.activePlan.talkingPoints,
                  LAMBDA point : ~point.delivered))

\* activePlan.talkingPoints.filter((point) => point.delivered).length
completedTalkingPoints ==
    Len(SelectSeq(view.activePlan.talkingPoints,
                  LAMBDA point : point.delivered))

---------------------------------------------------------------------------
(* Initial state: the state after the first render of HomePage.            *)

\* arg is the index or identifier an operation was called with (0 if none),
\* text its text argument (<<>> if none)
NoOp == [name |-> "init", pre |-> "idle", arg |-> 0, text |-> <<>>]

NoCalls == [respond |-> 0, clarify |-> 0, toggle |-> 0]

Init ==
    /\ draftPlan = defaultPlan
    /\ activePlan = defaultPlan
    /\ callStatus = "idle"
    /\ consentToSummarize = FALSE
    /\ summaryNotes = <<>>
    /\ callLog = <<>>
    /\ callerEntry = <<>>
    /\ clarificationsUsed = 0
    /\ recordingDisclosureMade = FALSE
    /\ handoffReason = Null
    /\ nextId = SeedIds + 1
    /\ now = 0
    /\ view = committed
    /\ lastOp = NoOp
    /\ sinceLoad = NoCalls
    /\ script = 0
    /\ spent = 0

---------------------------------------------------------------------------
(* History bookkeeping shared by the actions.                              *)

EditorOps ==
    { "handlePlanFieldChange", "handleTalkingPointChange", "addTalkingPoint",
      "removeTalkingPoint", "handleHandoffConditionChange",
      "addHandoffCondition", "removeHandoffCondition" }

SetterOps ==
    { "toggleTalkingPointDelivered", "setCallerEntry",
      "setConsentToSummarize",
      "setRecordingDisclosureMade", "Tick" }

\* The exploration follows long runs of call operations and short runs of
\* edits: an edit, a field setter or a clock tick weighs twice a call
\* operation (load, start, respond, clarify, log, hand off, and the
\* summary input, so that consent can be given, a summary typed and the
\* consent withdrawn in one behaviour).
Cost(name) == IF name \in EditorOps \cup SetterOps THEN 2 ELSE 1

\* The scenario run from the initial state: startCall, then respondWithNext
\* four times.  script = k says that the operations performed so far are
\* exactly its first k steps; Off says that the behaviour left the scenario.
SeedScript ==
    << "startCall", "respondWithNextPoint", "respondWithNextPoint",
       "respondWithNextPoint", "respondWithNextPoint" >>

Off == 0 - 1

Did(name, arg, text) ==
    /\ spent + Cost(name) <= MaxCost
    /\ spent' = spent + Cost(name)
    /\ script' = IF script # Off /\ script < Len(SeedScript)
                     /\ SeedScript[script + 1] = name
                  THEN script + 1 ELSE Off
    /\ lastOp' = [name |-> name, pre |-> callStatus, arg |-> arg,
                  text |-> text]
    /\ Rendered

Edited(name, arg) ==
    /\ Did(name, arg, <<>>)
    /\ UNCHANGED sinceLoad

Acted(name, text) == Did(name, 0, text)

Pointed(name, arg) == Did(name, arg, <<>>)

Counted(field) == sinceLoad' = [sinceLoad EXCEPT ![field] = @ + 1]

---------------------------------------------------------------------------
(* Plan editor: handlers that call setDraftPlan only.                      *)

\* faulty variant: the field is written through to the active plan
handlePlanFieldChange_shared(key, value) ==
    /\ draftPlan' = Spread(draftPlan, key :> value)
    /\ activePlan' = Spread(activePlan, key :> value)
    /\ UNCHANGED <<session, env>>
    /\ Edited("handlePlanFieldChange", 0)

handlePlanFieldChange(key, value) ==
    /\ draftPlan' = Spread(draftPlan, key :> value)
    /\ UNCHANGED <<activePlan, session, env>>
    /\ Edited("handlePlanFieldChange", 0)

handleTalkingPointChange(index, value) ==
    /\ draftPlan' = Spread(draftPlan,
          [talkingPoints |->
              [i \in 1..Len(draftPlan.talkingPoints) |->
                  LET point == draftPlan.talkingPoints[i]
                      idx == i - 1
                  IN  IF idx = index THEN Spread(point, value)
                      ELSE point]])
    /\ UNCHANGED <<activePlan, session, env>>
    /\ Edited("handleTalkingPointChange", index)

\* faulty variant: the new point is placed before the existing ones
addTalkingPoint_first ==
    /\ draftPlan' = Spread(draftPlan,
          [talkingPoints |->
              << [id |-> nextId, content |-> <<>>,
                  emphasis |-> "low", delivered |-> FALSE] >>
                  \o draftPlan.talkingPoints])
    /\ nextId' = nextId + 1
    /\ UNCHANGED <<activePlan, session, now>>
    /\ Edited("addTalkingPoint", 0)

addTalkingPoint ==
    /\ draftPlan' = Spread(draftPlan,
          [talkingPoints |->
              draftPlan.talkingPoints \o
                  << [id |-> nextId, content |-> <<>>,
                      emphasis |-> "low", delivered |-> FALSE] >>])
    /\ nextId' = nextId + 1
    /\ UNCHANGED <<activePlan, session, now>>
    /\ Edited("addTalkingPoint", 0)

removeTalkingPoint(id) ==
    /\ draftPlan' = Spread(draftPlan,
          [talkingPoints |->
              SelectSeq(draftPlan.talkingPoints,
                        LAMBDA point : point.id # id)])
    /\ UNCHANGED <<activePlan, session, env>>
    /\ Edited("removeTalkingPoint", id)

\* faulty variant: copy[index] = value, which grows the list when index is
\* its length
handleHandoffConditionChange_assign(index, value) ==
    /\ draftPlan' = Spread(draftPlan,
          [handoffConditions |->
              [i \in 1..Len(draftPlan.handoffConditions) |->
                  LET condition == draftPlan.handoffConditions[i]
                      idx == i - 1
                  IN  IF idx = index THEN value ELSE condition]
              \o (IF index = Len(draftPlan.handoffConditions)
                  THEN <<value>> ELSE <<>>)])
    /\ UNCHANGED <<activePlan, session, env>>
    /\ Edited("handleHandoffConditionChange", index)

handleHandoffConditionChange(index, value) ==
    /\ draftPlan' = Spread(draftPlan,
          [handoffConditions |->
              [i \in 1..Len(draftPlan.handoffConditions) |->
                  LET condition == draftPlan.handoffConditions[i]
                      idx == i - 1
                  IN  IF idx = index THEN value ELSE condition]])
    /\ UNCHANGED <<activePlan, session, env>>
    /\ Edited("handleHandoffConditionChange", index)

addHandoffCondition ==
    /\ draftPlan' = Spread(draftPlan,
          [handoffConditions |-> draftPlan.handoffConditions \o << <<>> >>])
    /\ UNCHANGED <<activePlan, session, env>>
    /\ Edited("addHandoffCondition", 0)

removeHandoffCondition(index) ==
    /\ draftPlan' = Spread(draftPlan,
          [handoffConditions |->
              filterIndex(draftPlan.handoffConditions, index, 1)])
    /\ UNCHANGED <<activePlan, session, env>>
    /\ Edited("removeHandoffCondition", index)

---------------------------------------------------------------------------
(* Call session.                                                           *)

\* faulty variant: the draft is copied with its delivered flags
loadedPlan_keepFlags(draft) == Spread(draft, [talkingPoints |-> draft.talkingPoints])

\* the plan handed to setActivePlan by loadDraftToActive
loadedPlan(draft) ==
    Spread(draft,
           [talkingPoints |->
               [i \in 1..Len(draft.talkingPoints) |->
                   Spread(draft.talkingPoints[i], [delivered |-> FALSE])]])

\* faulty variant: the clarification counter survives the load
loadDraftToActive_keepCounter ==
    /\ activePlan' = loadedPlan(view.draftPlan)
    /\ callStatus' = "idle"
    /\ callLog' = <<>>
    /\ callerEntry' = <<>>
    /\ consentToSummarize' = FALSE
    /\ summaryNotes' = <<>>
    /\ recordingDisclosureMade' = FALSE
    /\ handoffReason' = Null
    /\ UNCHANGED <<draftPlan, env, clarificationsUsed>>
    /\ sinceLoad' = NoCalls
    /\ Acted("loadDraftToActive", <<>>)

loadDraftToActive ==
    /\ activePlan' = loadedPlan(view.draftPlan)
    /\ callStatus' = "idle"
    /\ callLog' = <<>>
    /\ callerEntry' = <<>>
    /\ clarificationsUsed' = 0
    /\ consentToSummarize' = FALSE
    /\ summaryNotes' = <<>>
    /\ recordingDisclosureMade' = FALSE
    /\ handoffReason' = Null
    /\ UNCHANGED <<draftPlan, env>>
    /\ sinceLoad' = NoCalls
    /\ Acted("loadDraftToActive", <<>>)

\* faulty variant: the identifier is not compared, every point is flipped
toggled_all(prev, id) ==
    Spread(prev,
           [talkingPoints |->
               [i \in 1..Len(prev.talkingPoints) |->
                   LET point == prev.talkingPoints[i]
                   IN  Spread(point, [delivered |-> ~point.delivered])]])

\* the updater handed to setActivePlan by toggleTalkingPointDelivered
toggled(prev, id) ==
    Spread(prev,
           [talkingPoints |->
               [i \in 1..Len(prev.talkingPoints) |->
                   LET point == prev.talkingPoints[i]
                   IN  IF point.id = id
                       THEN Spread(point, [delivered |-> ~point.delivered])
                       ELSE point]])

\* faulty variant: the flag is set instead of negated
toggleTalkingPointDelivered_set(id) ==
    /\ activePlan' = Spread(activePlan,
          [talkingPoints |->
              [i \in 1..Len(activePlan.talkingPoints) |->
                  LET point == activePlan.talkingPoints[i]
                  IN  IF point.id = id
                      THEN Spread(point, [delivered |-> TRUE])
                      ELSE point]])
    /\ UNCHANGED <<draftPlan, session, env>>
    /\ sinceLoad' = [sinceLoad EXCEPT !.toggle = 1]
    /\ Pointed("toggleTalkingPointDelivered", id)

toggleTalkingPointDelivered(id) ==
    /\ activePlan' = toggled(activePlan, id)
    /\ UNCHANGED <<draftPlan, session, env>>
    /\ sinceLoad' = [sinceLoad EXCEPT !.toggle = 1]
    /\ Pointed("toggleTalkingPointDelivered", id)

\* setCallLog((prev) => [...prev, { id: makeId(), timestamp: Date.now(), ...entry }])
pushLogEntry(entry) ==
    /\ nextId' = nextId + 1
    /\ callLog' = callLog \o
          << Spread([id |-> nextId, timestamp |-> now], entry) >>
    /\ UNCHANGED now

\* faulty variant: the call goes live without the disclosure being logged
startCall_silent ==
    /\ callStatus' = "live"
    /\ UNCHANGED <<plan, consentToSummarize, summaryNotes, callLog,
                   callerEntry, clarificationsUsed, recordingDisclosureMade,
                   handoffReason, env, sinceLoad>>
    /\ Acted("startCall", <<>>)

\* faulty variant: the disclosure is read from the draft
startCall_fromDraft ==
    /\ callStatus' = "live"
    /\ pushLogEntry([sender |-> "NovaCall",
                     content |-> view.draftPlan.openingDisclosure])
    /\ UNCHANGED <<plan, consentToSummarize, summaryNotes, callerEntry,
                   clarificationsUsed, recordingDisclosureMade,
                   handoffReason, sinceLoad>>
    /\ Acted("startCall", <<>>)

startCall ==
    /\ callStatus' = "live"
    /\ pushLogEntry([sender |-> "NovaCall",
                     content |-> view.activePlan.openingDisclosure])
    /\ UNCHANGED <<plan, consentToSummarize, summaryNotes, callerEntry,
                   clarificationsUsed, recordingDisclosureMade,
                   handoffReason, sinceLoad>>
    /\ Acted("startCall", <<>>)

\* faulty variant: the handler returns early unless the call is live
respondWithNextPoint_liveOnly ==
    /\ IF nextTalkingPoint = Null \/ view.callStatus # "live"
       THEN UNCHANGED <<plan, session, env>>
       ELSE LET point == nextTalkingPoint[1] IN
            /\ activePlan' = toggled(activePlan, point.id)
            /\ pushLogEntry([sender |-> "NovaCall", content |-> point.content])
            /\ UNCHANGED <<draftPlan, callStatus, consentToSummarize,
                           summaryNotes, callerEntry, clarificationsUsed,
                           recordingDisclosureMade, handoffReason>>
    /\ Counted("respond")
    /\ Acted("respondWithNextPoint", <<>>)

respondWithNextPoint ==
    /\ IF nextTalkingPoint = Null
       THEN UNCHANGED <<plan, session, env>>
       ELSE LET point == nextTalkingPoint[1] IN
            /\ activePlan' = toggled(activePlan, point.id)
            /\ pushLogEntry([sender |-> "NovaCall", content |-> point.content])
            /\ UNCHANGED <<draftPlan, callStatus, consentToSummarize,
                           summaryNotes, callerEntry, clarificationsUsed,
                           recordingDisclosureMade, handoffReason>>
    /\ Counted("respond")
    /\ Acted("respondWithNextPoint", <<>>)

\* onCallerEntryChange={setCallerEntry}
setCallerEntry(value) ==
    /\ callerEntry' = value
    /\ UNCHANGED <<plan, callStatus, consentToSummarize, summaryNotes,
                   callLog, clarificationsUsed, recordingDisclosureMade,
                   handoffReason, env, sinceLoad>>
    /\ Acted("setCallerEntry", <<>>)

\* faulty variant: the entry is logged and also written into the draft's
\* notes
addCallerEntry_intoNotes ==
    /\ IF trim(view.callerEntry) = <<>>
       THEN UNCHANGED <<plan, session, env>>
       ELSE /\ pushLogEntry([sender |-> "Caller",
                             content |-> trim(view.callerEntry)])
            /\ callerEntry' = <<>>
            /\ draftPlan' = Spread(draftPlan,
                  [additionalNotes |-> trim(view.callerEntry)])
            /\ UNCHANGED <<activePlan, callStatus, consentToSummarize,
                           summaryNotes, clarificationsUsed,
                           recordingDisclosureMade, handoffReason>>
    /\ UNCHANGED sinceLoad
    /\ Acted("addCallerEntry", view.callerEntry)

addCallerEntry ==
    /\ IF trim(view.callerEntry) = <<>>
       THEN UNCHANGED <<plan, session, env>>
       ELSE /\ pushLogEntry([sender |-> "Caller",
                             content |-> trim(view.callerEntry)])
            /\ callerEntry' = <<>>
            /\ UNCHANGED <<plan, callStatus, consentToSummarize,
                           summaryNotes, clarificationsUsed,
                           recordingDisclosureMade, handoffReason>>
    /\ UNCHANGED sinceLoad
    /\ Acted("addCallerEntry", view.callerEntry)

\* faulty variant: the prompt is read one position too far
useClarification_nextIndex ==
    /\ IF ~canUseClarification
       THEN UNCHANGED <<plan, session, env>>
       ELSE LET clarification ==
                    IF view.clarificationsUsed + 2
                           \in DOMAIN view.activePlan.clarifications
                    THEN view.activePlan.clarifications[
                             view.clarificationsUsed + 2]
                    ELSE FallbackClarification
            IN
            /\ pushLogEntry([sender |-> "NovaCall", content |-> clarification])
            /\ clarificationsUsed' = clarificationsUsed + 1
            /\ UNCHANGED <<plan, callStatus, consentToSummarize,
                           summaryNotes, callerEntry,
                           recordingDisclosureMade, handoffReason>>
    /\ Counted("clarify")
    /\ Acted("useClarification", <<>>)

useClarification ==
    /\ IF ~canUseClarification
       THEN UNCHANGED <<plan, session, env>>
       ELSE LET clarification ==
                    IF view.clarificationsUsed + 1
                           \in DOMAIN view.activePlan.clarifications
                    THEN view.activePlan.clarifications[
                             view.clarificationsUsed + 1]
                    ELSE FallbackClarification
            IN
            /\ pushLogEntry([sender |-> "NovaCall", content |-> clarification])
            /\ clarificationsUsed' = clarificationsUsed + 1
            /\ UNCHANGED <<plan, callStatus, consentToSummarize,
                           summaryNotes, callerEntry,
                           recordingDisclosureMade, handoffReason>>
    /\ Counted("clarify")
    /\ Acted("useClarification", <<>>)

\* faulty variant: the reason recorded is the plan's first condition
executeHandoff_firstCondition(condition) ==
    /\ callStatus' = "handoff"
    /\ handoffReason' = Some(view.activePlan.handoffConditions[1])
    /\ pushLogEntry([sender |-> "NovaCall",
                     content |-> TransferAnnouncement])
    /\ UNCHANGED <<plan, consentToSummarize, summaryNotes, callerEntry,
                   clarificationsUsed, recordingDisclosureMade,
                   sinceLoad>>
    /\ Acted("executeHandoff", condition)

\* faulty variant: a second handoff is rejected
executeHandoff_once(condition) ==
    /\ IF view.callStatus = "handoff"
       THEN UNCHANGED <<plan, session, env>>
       ELSE /\ callStatus' = "handoff"
            /\ handoffReason' = Some(condition)
            /\ pushLogEntry([sender |-> "NovaCall",
                             content |-> TransferAnnouncement])
            /\ UNCHANGED <<plan, consentToSummarize, summaryNotes,
                           callerEntry, clarificationsUsed,
                           recordingDisclosureMade>>
    /\ UNCHANGED sinceLoad
    /\ Acted("executeHandoff", condition)

executeHandoff(condition) ==
    /\ callStatus' = "handoff"
    /\ handoffReason' = Some(condition)
    /\ pushLogEntry([sender |-> "NovaCall",
                     content |-> TransferAnnouncement])
    /\ UNCHANGED <<plan, consentToSummarize, summaryNotes, callerEntry,
                   clarificationsUsed, recordingDisclosureMade,
                   sinceLoad>>
    /\ Acted("executeHandoff", condition)

\* onConsentChange={setConsentToSummarize}
\* faulty variant: withdrawing the consent erases the summary
setConsentToSummarize_erasing(value) ==
    /\ consentToSummarize' = value
    /\ summaryNotes' = IF value THEN summaryNotes ELSE <<>>
    /\ UNCHANGED <<plan, callStatus, callLog, callerEntry,
                   clarificationsUsed, recordingDisclosureMade,
                   handoffReason, env, sinceLoad>>
    /\ Acted("setConsentToSummarize", <<>>)

setConsentToSummarize(value) ==
    /\ consentToSummarize' = value
    /\ UNCHANGED <<plan, callStatus, summaryNotes, callLog, callerEntry,
                   clarificationsUsed, recordingDisclosureMade,
                   handoffReason, env, sinceLoad>>
    /\ Acted("setConsentToSummarize", <<>>)

\* onSummaryChange={setSummaryNotes}
setSummaryNotes(value) ==
    /\ summaryNotes' = value
    /\ UNCHANGED <<plan, callStatus, consentToSummarize, callLog,
                   callerEntry, clarificationsUsed,
                   recordingDisclosureMade, handoffReason, env,
                   sinceLoad>>
    /\ Acted("setSummaryNotes", <<>>)

\* onRecordingDisclosureChange={setRecordingDisclosureMade}
setRecordingDisclosureMade(value) ==
    /\ recordingDisclosureMade' = value
    /\ UNCHANGED <<plan, callStatus, consentToSummarize, summaryNotes,
                   callLog, callerEntry, clarificationsUsed,
                   handoffReason, env, sinceLoad>>
    /\ Acted("setRecordingDisclosureMade", <<>>)

---------------------------------------------------------------------------
(* Environment: the wall clock advances between two handlers.              *)

Tick ==
    /\ now < MaxTime
    /\ now' = now + 1
    /\ UNCHANGED <<plan, session, nextId, sinceLoad>>
    /\ Acted("Tick", <<>>)

---------------------------------------------------------------------------

(* Handler level: every handler of HomePage may be called in every state,  *)
(* with arguments inside and outside the lists it works on.                *)

Next ==
    \/ \E kv \in FieldInputs : handlePlanFieldChange(kv[1], kv[2])
    \/ \E index \in IndexInputs(draftPlan.talkingPoints),
          value \in PartialInputs :
              handleTalkingPointChange(index, value)
    \/ addTalkingPoint
    \/ \E id \in {p.id : p \in Elems(draftPlan.talkingPoints)}
                    \cup {UnknownId} :
              removeTalkingPoint(id)
    \/ \E index \in IndexInputs(draftPlan.handoffConditions),
          value \in ConditionInputs :
              handleHandoffConditionChange(index, value)
    \/ addHandoffCondition
    \/ \E index \in IndexInputs(draftPlan.handoffConditions) :
              removeHandoffCondition(index)
    \/ loadDraftToActive
    \/ \E id \in {p.id : p \in Elems(activePlan.talkingPoints)}
                    \cup {UnknownId} :
              toggleTalkingPointDelivered(id)
    \/ startCall
    \/ respondWithNextPoint
    \/ \E value \in TextInputs : setCallerEntry(value)
    \/ addCallerEntry
    \/ useClarification
    \/ \E condition \in Elems(activePlan.handoffConditions) :
              executeHandoff(condition)
    \/ \E value \in BOOLEAN : setConsentToSummarize(value)
    \/ \E value \in SummaryInputs : setSummaryNotes(value)
    \/ \E value \in BOOLEAN : setRecordingDisclosureMade(value)
    \/ Tick

Spec == Init /\ [][Next]_vars

---------------------------------------------------------------------------
(* Console level: the handlers as CallPlanEditor and CallConsole wire them *)
(* to their widgets.  A disabled or unrendered widget fires no handler, a  *)
(* list widget passes the position or identifier of a row it renders, and  *)
(* a checkbox passes the negation of the value it shows.                   *)

\* faulty variant: the editor has an input for the clarifications too
EditorFieldInputs_clarifications ==
    { <<"openingDisclosure", <<"Hello,", " ", "edited disclosure.">> >>,
      <<"clarifications", << <<"Could you repeat that?">> >> >> }

\* fields CallPlanEditor has an input for, with a text typed into it
EditorFieldInputs ==
    { <<"openingDisclosure", <<"Hello,", " ", "edited disclosure.">> >>,
      <<"additionalNotes", <<>> >> }

\* partial points passed by the content textarea and the emphasis select
EditorPartialInputs ==
    { [content |-> <<"Edited point.">>], [emphasis |-> "medium"] }

\* zero-based positions of the rows rendered for a list: first and last
RowInputs(list) == {0, Len(list) - 1} \cap (0..(Len(list) - 1))

CallPlanEditor ==
    \/ \E kv \in EditorFieldInputs : handlePlanFieldChange(kv[1], kv[2])
    \/ \E index \in RowInputs(view.draftPlan.talkingPoints),
          value \in EditorPartialInputs :
              handleTalkingPointChange(index, value)
    \/ addTalkingPoint
    \/ \E id \in {p.id : p \in Elems(view.draftPlan.talkingPoints)} :
              removeTalkingPoint(id)
    \/ \E index \in RowInputs(view.draftPlan.handoffConditions),
          value \in ConditionInputs :
              handleHandoffConditionChange(index, value)
    \/ addHandoffCondition
    \/ \E index \in RowInputs(view.draftPlan.handoffConditions) :
              removeHandoffCondition(index)

\* faulty variant: the start button is enabled in every status
onStartCall_enabled == startCall

\* <button onClick={onStartCall} disabled={callStatus !== "idle"}>
onStartCall == view.callStatus = "idle" /\ startCall

\* {nextTalkingPoint ? <button onClick={onRespondWithNext}> : <span>}
onRespondWithNext == nextTalkingPoint # Null /\ respondWithNextPoint

\* <input type="checkbox" onChange={() => onTalkingPointToggle(point.id)}>
onTalkingPointToggle ==
    \E id \in {p.id : p \in Elems(view.activePlan.talkingPoints)} :
        toggleTalkingPointDelivered(id)

\* <button onClick={onClarification} disabled={!canUseClarification}>
onClarification == canUseClarification /\ useClarification

\* faulty variant: the buttons are rendered from the draft's conditions
onExecuteHandoff_fromDraft ==
    \E condition \in Elems(view.draftPlan.handoffConditions) :
        executeHandoff(condition)

\* <button onClick={() => onExecuteHandoff(condition)}>, in every status
onExecuteHandoff ==
    \E condition \in Elems(view.activePlan.handoffConditions) :
        executeHandoff(condition)

onCallerEntryChange == \E value \in TextInputs : setCallerEntry(value)

onCallerSubmit == addCallerEntry

onConsentChange == setConsentToSummarize(~view.consentToSummarize)

\* faulty variant: the textarea is enabled without consent
onSummaryChange_enabled == \E value \in SummaryInputs : setSummaryNotes(value)

\* <textarea onChange={...onSummaryChange...} disabled={!consentToSummarize}>
onSummaryChange ==
    /\ view.consentToSummarize
    /\ \E value \in SummaryInputs : setSummaryNotes(value)

onRecordingDisclosureChange ==
    setRecordingDisclosureMade(~view.recordingDisclosureMade)

CallConsole ==
    \/ onStartCall
    \/ onRespondWithNext
    \/ onTalkingPointToggle
    \/ onClarification
    \/ onExecuteHandoff
    \/ onCallerEntryChange
    \/ onCallerSubmit
    \/ onConsentChange
    \/ onSummaryChange
    \/ onRecordingDisclosureChange

ConsoleNext ==
    \/ CallPlanEditor
    \/ loadDraftToActive
    \/ CallConsole
    \/ Tick

ConsoleSpec == Init /\ [][ConsoleNext]_vars

---------------------------------------------------------------------------
(* Properties.                                                             *)

\* the log grew by exactly one entry, from `sender` with `content`
Appended(sender, content) ==
    /\ Len(callLog') = Len(callLog) + 1
    /\ Front(callLog') = callLog
    /\ Last(callLog').sender = sender
    /\ Last(callLog').content = content

\* C1: load yields an active plan whose talking points are the draft's, in
\* the same order, every delivered flag false, and resets status to idle,
\* the log to empty, clarificationsUsed to 0, consentToSummarize to false,
\* summaryNotes to "", recordingDisclosureMade to false and handoffReason
\* to none, whatever the state it is taken from.  (load leaves the draft
\* alone, so the draft of the state after load is the draft it copied.)
C1_LoadResets ==
    lastOp.name = "loadDraftToActive" =>
        /\ Len(activePlan.talkingPoints) = Len(draftPlan.talkingPoints)
        /\ \A i \in 1..Len(draftPlan.talkingPoints) :
              /\ activePlan.talkingPoints[i].id = draftPlan.talkingPoints[i].id
              /\ activePlan.talkingPoints[i].content =
                     draftPlan.talkingPoints[i].content
              /\ activePlan.talkingPoints[i].emphasis =
                     draftPlan.talkingPoints[i].emphasis
              /\ activePlan.talkingPoints[i].delivered = FALSE
        /\ callStatus = "idle"
        /\ callLog = <<>>
        /\ clarificationsUsed = 0
        /\ consentToSummarize = FALSE
        /\ summaryNotes = <<>>
        /\ recordingDisclosureMade = FALSE
        /\ handoffReason = Null

\* load has just run in status handoff on a draft holding a delivered flag
C1_Witness ==
    /\ lastOp.name = "loadDraftToActive"
    /\ lastOp.pre = "handoff"
    /\ \E i \in 1..Len(draftPlan.talkingPoints) :
          draftPlan.talkingPoints[i].delivered

\* C2: handoff is terminal: once status is handoff it stays handoff under
\* every operation other than load.
C2_HandoffTerminal ==
    [][ (callStatus = "handoff" /\ lastOp'.name # "loadDraftToActive")
            => callStatus' = "handoff" ]_vars

\* C3: startCall invoked when status is live or handoff is a no-op: status,
\* log and every other session field, and both plans, stay as they are.
C3_StartCallGuarded ==
    [][ (lastOp'.name = "startCall" /\ callStatus # "idle")
            => UNCHANGED <<plan, session>> ]_vars

\* C4: startCall from idle sets status to live and appends exactly one log
\* entry, from the system agent, whose content is the active plan's opening
\* disclosure; nothing else in the session and neither plan changes.
C4_StartCallFromIdle ==
    [][ (lastOp'.name = "startCall" /\ callStatus = "idle")
            => /\ callStatus' = "live"
               /\ Appended("NovaCall", activePlan.openingDisclosure)
               /\ UNCHANGED <<plan, consentToSummarize, summaryNotes,
                              callerEntry, clarificationsUsed,
                              recordingDisclosureMade, handoffReason>> ]_vars

\* startCall has just run from idle while the draft's disclosure differed
C4_Witness ==
    /\ lastOp.name = "startCall"
    /\ lastOp.pre = "idle"
    /\ callStatus = "live"
    /\ draftPlan.openingDisclosure # activePlan.openingDisclosure
    /\ Last(callLog).content = activePlan.openingDisclosure

\* C5: from a freshly loaded session with N talking points and no manual
\* toggle since, the k-th respondWithNext call (k <= N) delivers the k-th
\* point, which was undelivered, changes no other point and logs that
\* point's content; every later call changes neither the flags nor the log.
C5_RespondInPlanOrder ==
    [][ (lastOp'.name = "respondWithNextPoint" /\ sinceLoad.toggle = 0)
            => LET k == sinceLoad.respond + 1
                   points == activePlan.talkingPoints
               IN  IF k <= Len(points)
                   THEN /\ ~points[k].delivered
                        /\ activePlan'.talkingPoints =
                               [points EXCEPT ![k].delivered = TRUE]
                        /\ Appended("NovaCall", points[k].content)
                   ELSE UNCHANGED <<activePlan, callLog>> ]_vars

\* the call after the N-th has just run on an untoggled plan of N >= 1 points
C5_Witness ==
    /\ lastOp.name = "respondWithNextPoint"
    /\ sinceLoad.toggle = 0
    /\ Len(activePlan.talkingPoints) >= 1
    /\ sinceLoad.respond = Len(activePlan.talkingPoints) + 1
    /\ completedTalkingPoints = Len(activePlan.talkingPoints)

\* C6: after a load of a plan with L clarifications, the k-th
\* useClarification call (k <= L) logs clarifications[k-1] from the system
\* agent and sets clarificationsUsed to k; the (L+1)-th and later calls
\* change neither the log nor the counter.
C6_ClarificationsInOrder ==
    [][ lastOp'.name = "useClarification"
            => LET k == sinceLoad.clarify + 1
                   list == activePlan.clarifications
               IN  IF k <= Len(list)
                   THEN /\ Appended("NovaCall", list[k])
                        /\ clarificationsUsed' = k
                   ELSE UNCHANGED <<callLog, clarificationsUsed>> ]_vars

\* the call after the L-th has just run on a plan of L >= 1 clarifications
C6_Witness ==
    /\ lastOp.name = "useClarification"
    /\ Len(activePlan.clarifications) >= 1
    /\ sinceLoad.clarify = Len(activePlan.clarifications) + 1

\* C7: in every reachable state
\* 0 <= clarificationsUsed <= length of the active plan's clarifications.
C7_ClarificationsBounded ==
    /\ 0 <= clarificationsUsed
    /\ clarificationsUsed <= Len(activePlan.clarifications)

\* a plan of one clarification was loaded, its clarification used, and a
\* further call found the budget exhausted
C7_Witness ==
    /\ Len(activePlan.clarifications) = 1
    /\ Len(draftPlan.clarifications) = 1
    /\ clarificationsUsed = 1
    /\ sinceLoad.clarify = 2

\* the blank / trimmed relation of C8, stated on positions of the text
AllBlank(text) == \A i \in 1..Len(text) : text[i] \in WhiteSpace

IsTrimOf(content, text) ==
    \E i \in 1..Len(text) : \E j \in i..Len(text) :
        /\ content = SubSeq(text, i, j)
        /\ text[i] \notin WhiteSpace
        /\ text[j] \notin WhiteSpace
        /\ \A m \in 1..(i - 1) : text[m] \in WhiteSpace
        /\ \A m \in (j + 1)..Len(text) : text[m] \in WhiteSpace

\* C8: logCallerEntry with a pending text that is empty or only white space
\* leaves plans and session unchanged; with any other text it appends
\* exactly one entry from the caller whose content is the text without its
\* leading and trailing white space, and clears the pending input buffer.
C8_CallerEntryTrimmed ==
    [][ lastOp'.name = "addCallerEntry"
            => IF AllBlank(callerEntry)
               THEN UNCHANGED <<plan, session>>
               ELSE /\ Len(callLog') = Len(callLog) + 1
                    /\ Front(callLog') = callLog
                    /\ Last(callLog').sender = "Caller"
                    /\ IsTrimOf(Last(callLog').content, callerEntry)
                    /\ callerEntry' = <<>>
                    /\ UNCHANGED <<plan, callStatus, consentToSummarize,
                                   summaryNotes, clarificationsUsed,
                                   recordingDisclosureMade,
                                   handoffReason>> ]_vars

\* a text with white space on both sides and inside has just been logged
C8_Witness ==
    /\ lastOp.name = "addCallerEntry"
    /\ lastOp.text = <<" ", "hello", " ", "there", "\n">>
    /\ Last(callLog).sender = "Caller"
    /\ Last(callLog).content = <<"hello", " ", "there">>
    /\ callerEntry = <<>>

\* C9: from the initial state, startCall and three respondWithNext calls
\* leave a log of exactly 4 entries, the opening disclosure and the three
\* seed talking points in plan order, with 3 of 3 points completed; the
\* fourth respondWithNext call leaves all of that as it is and creates no
\* entry.
C9_SeedScenario ==
    script \in {4, 5} =>
        /\ Len(callLog) = 4
        /\ [i \in 1..4 |-> callLog[i].content] =
               << defaultPlan.openingDisclosure,
                  defaultPlan.talkingPoints[1].content,
                  defaultPlan.talkingPoints[2].content,
                  defaultPlan.talkingPoints[3].content >>
        /\ \A i \in 1..4 : callLog[i].sender = "NovaCall"
        /\ completedTalkingPoints = 3
        /\ Len(activePlan.talkingPoints) = 3
        /\ nextId = SeedIds + 5
        /\ callStatus = "live"

\* the scenario has been run to its last step
C9_Witness ==
    /\ script = Len(SeedScript)
    /\ lastOp.name = "respondWithNextPoint"
    /\ sinceLoad.respond = 4

\* C10: executeHandoff(c) invoked in status live sets status to handoff and
\* handoffReason to c and appends exactly one entry, the transfer
\* announcement of the system agent; a load taken in status handoff sets
\* status to idle and handoffReason to none.
C10_HandoffThenLoad ==
    [][ /\ (lastOp'.name = "executeHandoff" /\ callStatus = "live")
            => /\ callStatus' = "handoff"
               /\ handoffReason' = Some(lastOp'.text)
               /\ Appended("NovaCall", TransferAnnouncement)
        /\ (lastOp'.name = "loadDraftToActive" /\ callStatus = "handoff")
            => /\ callStatus' = "idle"
               /\ handoffReason' = Null ]_vars

\* executeHandoff has just run in status live with a condition that is not
\* the first of the plan
C10_Witness ==
    /\ lastOp.name = "executeHandoff"
    /\ lastOp.pre = "live"
    /\ callStatus = "handoff"
    /\ handoffReason = Some(lastOp.text)
    /\ lastOp.text # activePlan.handoffConditions[1]
    /\ Last(callLog).content = TransferAnnouncement

\* the identifiers of a list of talking points, in list order
Ids(points) == [i \in 1..Len(points) |-> points[i].id]

\* `rest` is `points` without some of its members: what is left is unchanged
\* and in the order it had
IsRestOf(rest, points) ==
    rest = SelectSeq(points, LAMBDA point : point \in Elems(rest))

\* C11: addTalkingPoint and removeTalkingPoint leave every talking point
\* that stays in the draft with its identifier (and its other fields) and in
\* the order the remaining points had; the point addTalkingPoint creates
\* has an identifier no existing point has and comes after all of them.
C11_AddRemoveKeepOrder ==
    [][ /\ lastOp'.name = "addTalkingPoint"
            => /\ Len(draftPlan'.talkingPoints) =
                      Len(draftPlan.talkingPoints) + 1
               /\ Front(draftPlan'.talkingPoints) = draftPlan.talkingPoints
               /\ Last(draftPlan'.talkingPoints).id
                      \notin Elems(Ids(draftPlan.talkingPoints))
        /\ lastOp'.name = "removeTalkingPoint"
            => /\ IsRestOf(draftPlan'.talkingPoints, draftPlan.talkingPoints)
               /\ Elems(Ids(draftPlan'.talkingPoints)) =
                      Elems(Ids(draftPlan.talkingPoints)) \ {lastOp'.arg} ]_vars

\* a seed point between two others has just been removed from a draft that
\* holds a point added after the seed ones
C11_Witness ==
    /\ lastOp.name = "removeTalkingPoint"
    /\ Ids(draftPlan.talkingPoints) = <<1, 3, SeedIds + 1>>

\* a plan without the delivered flags of its talking points
Unflagged(p) ==
    [p EXCEPT !.talkingPoints =
        [i \in 1..Len(p.talkingPoints) |->
            [id |-> p.talkingPoints[i].id,
             content |-> p.talkingPoints[i].content,
             emphasis |-> p.talkingPoints[i].emphasis]]]

\* C12: every editor operation leaves the active plan and the whole session
\* state unchanged, from the initial state on (where both plans hold the
\* same default value); what the active plan holds besides delivered flags
\* changes by load only.
C12_EditorFrame ==
    [][ /\ lastOp'.name \in EditorOps => UNCHANGED <<activePlan, session>>
        /\ Unflagged(activePlan') # Unflagged(activePlan)
            => lastOp'.name = "loadDraftToActive" ]_vars

\* the first operation of the behaviour was an edit: the draft moved away
\* from the default plan, the active plan still holds it
C12_Witness ==
    /\ lastOp.name \in EditorOps
    /\ spent = Cost(lastOp.name)
    /\ draftPlan # defaultPlan
    /\ activePlan = defaultPlan

\* zero-based positions inside a list
InRange(list) == 0..(Len(list) - 1)

\* C13: handleTalkingPointChange, handleHandoffConditionChange and
\* removeHandoffCondition called with an index outside the list, and
\* removeTalkingPoint called with an identifier no draft point has, complete
\* and leave the draft plan exactly as it was.
C13_InvalidInputsNoOp ==
    [][ ( \/ /\ lastOp'.name = "handleTalkingPointChange"
             /\ lastOp'.arg \notin InRange(draftPlan.talkingPoints)
          \/ /\ lastOp'.name \in {"handleHandoffConditionChange",
                                  "removeHandoffCondition"}
             /\ lastOp'.arg \notin InRange(draftPlan.handoffConditions)
          \/ /\ lastOp'.name = "removeTalkingPoint"
             /\ lastOp'.arg \notin Elems(Ids(draftPlan.talkingPoints)) )
            => draftPlan' = draftPlan ]_vars

\* a condition has just been written one position past the end of a draft
\* that was edited before
C13_Witness ==
    /\ lastOp.name = "handleHandoffConditionChange"
    /\ lastOp.arg = Len(draftPlan.handoffConditions)
    /\ draftPlan # defaultPlan

\* C14: toggleTalkingPointDelivered(id) negates the delivered flag of the
\* active-plan point with that identifier and leaves every other point, the
\* draft and the session (log, status, ...) unchanged; with an identifier
\* the active plan does not hold it changes nothing; applied once more with
\* the same identifier it gives back the active plan it started from.
C14_ToggleNegates ==
    [][ lastOp'.name = "toggleTalkingPointDelivered"
            => LET id == lastOp'.arg
                   points == activePlan.talkingPoints
               IN  /\ activePlan' =
                          [activePlan EXCEPT !.talkingPoints =
                              [i \in 1..Len(points) |->
                                  IF points[i].id = id
                                  THEN [points[i] EXCEPT !.delivered = ~@]
                                  ELSE points[i]]]
                   /\ id \notin Elems(Ids(points)) => activePlan' = activePlan
                   /\ UNCHANGED <<draftPlan, session>>
                   /\ toggled(activePlan', id) = activePlan ]_vars

\* the same point has been toggled twice in a row from the initial state
C14_Witness ==
    /\ lastOp.name = "toggleTalkingPointDelivered"
    /\ lastOp.arg \in Elems(Ids(activePlan.talkingPoints))
    /\ spent = 2 * Cost("toggleTalkingPointDelivered")
    /\ sinceLoad = [NoCalls EXCEPT !.toggle = 1]
    /\ activePlan = defaultPlan

\* C15: in the console every change of summaryNotes other than the reset
\* done by load is made in a state where consentToSummarize is true.
C15_SummaryGated ==
    [][ (summaryNotes' # summaryNotes /\ lastOp'.name # "loadDraftToActive")
            => consentToSummarize ]_vars

\* a summary has just been typed after consent was given
C15_Witness ==
    /\ lastOp.name = "setSummaryNotes"
    /\ summaryNotes # <<>>
    /\ consentToSummarize

\* C16: in every status, manual toggles or not, respondWithNext with an
\* undelivered point sets delivered on the undelivered point of lowest
\* position and on no other, raises the completed count by one and appends
\* one entry of the system agent with that point's content; with no
\* undelivered point it changes nothing.
C16_RespondAnyStatus ==
    [][ lastOp'.name = "respondWithNextPoint"
            => LET points == activePlan.talkingPoints
                   open == {i \in 1..Len(points) : ~points[i].delivered}
               IN  IF open = {}
                   THEN UNCHANGED <<plan, session>>
                   ELSE LET k == CHOOSE i \in open : \A j \in open : i <= j
                        IN  /\ activePlan' =
                                   [activePlan EXCEPT
                                       !.talkingPoints[k].delivered = TRUE]
                            /\ completedTalkingPoints' =
                                   completedTalkingPoints + 1
                            /\ Appended("NovaCall", points[k].content)
                            /\ UNCHANGED <<draftPlan, callStatus,
                                           consentToSummarize, summaryNotes,
                                           callerEntry, clarificationsUsed,
                                           recordingDisclosureMade,
                                           handoffReason>> ]_vars

\* respondWithNext has just run in status handoff on a plan whose first
\* point had been ticked by hand: it delivered the second point
C16_Witness ==
    /\ lastOp.name = "respondWithNextPoint"
    /\ lastOp.pre = "handoff"
    /\ sinceLoad = [NoCalls EXCEPT !.toggle = 1, !.respond = 1]
    /\ [i \in 1..3 |-> activePlan.talkingPoints[i].delivered] =
           <<TRUE, TRUE, FALSE>>
    /\ Last(callLog).content = activePlan.talkingPoints[2].content

\* a step that takes the session into `status` from another status
Enters(status) == callStatus # status /\ callStatus' = status

\* C17 (as stated): status live is entered only from idle and status
\* handoff only from live, so that no session goes from idle to handoff
\* without a startCall in between.
C17_IdleLiveHandoff ==
    [][ /\ Enters("live") => callStatus = "idle"
        /\ Enters("handoff") => callStatus = "live" ]_vars

\* C17 (amended): in the console status live is entered only from idle, by
\* startCall; status handoff is entered only by executeHandoff, from live
\* or directly from idle; status idle is entered only by load.
C17_StatusTransitions ==
    [][ /\ Enters("live")
            => callStatus = "idle" /\ lastOp'.name = "startCall"
        /\ Enters("handoff")
            => /\ callStatus \in {"idle", "live"}
               /\ lastOp'.name = "executeHandoff"
        /\ Enters("idle") => lastOp'.name = "loadDraftToActive" ]_vars

\* a session has gone from idle to handoff with no startCall: its log holds
\* the transfer announcement and nothing else
C17_Witness ==
    /\ lastOp.name = "executeHandoff"
    /\ lastOp.pre = "idle"
    /\ callStatus = "handoff"
    /\ Len(callLog) = 1

SessionOps ==
    { "startCall", "respondWithNextPoint", "toggleTalkingPointDelivered",
      "setCallerEntry", "addCallerEntry", "useClarification",
      "executeHandoff", "setConsentToSummarize", "setSummaryNotes",
      "setRecordingDisclosureMade" }

\* C18: the session operations never change the draft plan, and they change
\* nothing of the active plan but delivered flags: identifiers, contents,
\* emphasis and order of its talking points, its opening disclosure,
\* clarifications and handoff conditions are the same after as before.
C18_SessionFrame ==
    [][ lastOp'.name \in SessionOps
            => /\ draftPlan' = draftPlan
               /\ Unflagged(activePlan') = Unflagged(activePlan) ]_vars

\* a point has been delivered and the call handed off in a session whose
\* draft has been edited since the active plan was loaded
C18_Witness ==
    /\ lastOp.name \in SessionOps
    /\ completedTalkingPoints >= 1
    /\ callStatus = "handoff"
    /\ Unflagged(draftPlan) # Unflagged(activePlan)

\* the timestamps of a log never go down along the list
NonDecreasing(log) ==
    \A i \in 1..Len(log) : \A j \in i..Len(log) :
        log[i].timestamp <= log[j].timestamp

\* C19: every operation other than load leaves the entries of the log as
\* they are and where they are and adds at most one entry at the end; and
\* as long as entries are created with non-decreasing timestamps the log
\* sorted by timestamp is the log in insertion order, entries of equal
\* timestamp included.
C19_LogAppendOnly ==
    /\ [](NonDecreasing(callLog) => sortedLog = callLog)
    /\ [][ lastOp'.name # "loadDraftToActive"
              => \/ callLog' = callLog
                 \/ /\ Len(callLog') = Len(callLog) + 1
                    /\ Front(callLog') = callLog ]_vars

\* a log of two entries created at the same time and a third created later
C19_Witness ==
    /\ Len(callLog) = 3
    /\ callLog[1].timestamp = callLog[2].timestamp
    /\ callLog[2].timestamp < callLog[3].timestamp
    /\ sortedLog = callLog

\* C20: executeHandoff(c2) invoked in status handoff is carried out: status
\* stays handoff, handoffReason becomes c2 and one more transfer
\* announcement is appended to the log.
C20_HandoffAgain ==
    [][ (lastOp'.name = "executeHandoff" /\ callStatus = "handoff")
            => /\ callStatus' = "handoff"
               /\ handoffReason' = Some(lastOp'.text)
               /\ Appended("NovaCall", TransferAnnouncement)
               /\ Len(SelectSeq(callLog', LAMBDA entry :
                          entry.content = TransferAnnouncement)) >= 2 ]_vars

\* executeHandoff has just run in status handoff with the plan's second
\* condition: the log ends with two transfer announcements
C20_Witness ==
    /\ lastOp.name = "executeHandoff"
    /\ lastOp.pre = "handoff"
    /\ callStatus = "handoff"
    /\ handoffReason = Some(activePlan.handoffConditions[2])
    /\ Len(callLog) >= 2
    /\ callLog[Len(callLog) - 1].content = TransferAnnouncement
    /\ Last(callLog).content = TransferAnnouncement

\* the contents of the log entries of the system agent
AgentContents ==
    {callLog[i].content : i \in {j \in 1..Len(callLog) :
                                    callLog[j].sender = "NovaCall"}}

\* C21: in every reachable state every log entry of the system agent holds
\* the active plan's opening disclosure, the content of one of its talking
\* points, one of its clarifications or the transfer announcement; the
\* generic fallback prompt is in no entry of the system agent.
C21_AgentEntriesFromPlan ==
    /\ AgentContents \subseteq
           {activePlan.openingDisclosure, TransferAnnouncement}
               \cup {point.content : point \in Elems(activePlan.talkingPoints)}
               \cup Elems(activePlan.clarifications)
    /\ FallbackClarification \notin AgentContents

\* the log holds an entry of each of the four kinds, the last clarification
\* of the plan among them
C21_Witness ==
    /\ activePlan.openingDisclosure \in AgentContents
    /\ TransferAnnouncement \in AgentContents
    /\ activePlan.talkingPoints[1].content \in AgentContents
    /\ Last(activePlan.clarifications) \in AgentContents
    /\ ~canUseClarification

\* the clarification prompts in the log (the log is emptied by every load)
ClarificationPrompts ==
    SelectSeq(callLog, LAMBDA entry :
        /\ entry.sender = "NovaCall"
        /\ entry.content \in Elems(activePlan.clarifications))

\* C22: in the console no editor operation changes the clarifications of
\* the draft, so the draft and every active plan carry exactly the two seed
\* clarifications, and the log holds at most two clarification prompts
\* between two loads.
C22_TwoClarifications ==
    /\ draftPlan.clarifications = defaultPlan.clarifications
    /\ activePlan.clarifications = defaultPlan.clarifications
    /\ Len(defaultPlan.clarifications) = 2
    /\ Len(ClarificationPrompts) = clarificationsUsed
    /\ Len(ClarificationPrompts) <= 2

\* both clarifications have been used in a session loaded from an edited
\* draft
C22_Witness ==
    /\ activePlan.openingDisclosure # defaultPlan.openingDisclosure
    /\ clarificationsUsed = 2
    /\ Len(ClarificationPrompts) = 2
    /\ ~canUseClarification

\* C23: every operation acts on the state the previous one left: the values
\* a handler reads through its closure are the committed ones, so a
\* useClarification call made when no clarification is left does not pass
\* the guard and the counter never exceeds the length of the list, and a
\* respondWithNext call picks a point that is undelivered, never one that an
\* earlier call delivered: it logs no point twice and flips none back.
C23_NoStaleSnapshot ==
    /\ [](view = committed)
    /\ [][ /\ lastOp'.name = "useClarification"
               => /\ clarificationsUsed >= Len(activePlan.clarifications)
                       => UNCHANGED <<callLog, clarificationsUsed>>
                  /\ clarificationsUsed' <= Len(activePlan.clarifications)
           /\ lastOp'.name = "respondWithNextPoint"
               => LET points == activePlan.talkingPoints
                  IN  /\ \A i \in 1..Len(points) :
                             points[i].delivered
                                 => activePlan'.talkingPoints[i].delivered
                      /\ callLog' # callLog
                           => \E i \in 1..Len(points) :
                                 /\ ~points[i].delivered
                                 /\ activePlan'.talkingPoints[i].delivered
                                 /\ Last(callLog').content = points[i].content
         ]_vars

\* from the initial state useClarification has been called three times in a
\* row (the third with none left) and respondWithNext twice in a row: the
\* log holds the two clarifications and the first two points, once each
C23_Witness ==
    /\ lastOp.name = "respondWithNextPoint"
    /\ spent = 5
    /\ sinceLoad = [respond |-> 2, clarify |-> 3, toggle |-> 0]
    /\ clarificationsUsed = 2
    /\ [i \in 1..Len(callLog) |-> callLog[i].content] =
           << defaultPlan.clarifications[1], defaultPlan.clarifications[2],
              defaultPlan.talkingPoints[1].content,
              defaultPlan.talkingPoints[2].content >>
    /\ completedTalkingPoints = 2

\* C24: in every reachable state status is handoff if and only if
\* handoffReason is set: the reason is set by the transition into handoff
\* and cleared by load, and by nothing else.
C24_ReasonIffHandoff ==
    (callStatus = "handoff") <=> (handoffReason # Null)

\* C25: whenever status is live the log holds an entry of the system agent
\* whose content is the active plan's opening disclosure (not necessarily
\* as its first entry: other operations can log before startCall).
C25_LiveHasDisclosure ==
    callStatus = "live" =>
        \E i \in 1..Len(callLog) :
            /\ callLog[i].sender = "NovaCall"
            /\ callLog[i].content = activePlan.openingDisclosure

\* a live call whose log starts with a talking point and a caller entry,
\* logged before startCall
C25_Witness ==
    /\ callStatus = "live"
    /\ lastOp.name = "startCall"
    /\ Len(callLog) = 3
    /\ callLog[1].content = activePlan.talkingPoints[1].content
    /\ callLog[2].sender = "Caller"
    /\ callLog[3].content = activePlan.openingDisclosure

\* C26: in the console, whenever handoffReason is set its value is one of
\* the active plan's handoff conditions.
C26_ReasonFromActivePlan ==
    handoffReason # Null =>
        handoffReason[1] \in Elems(activePlan.handoffConditions)

\* a handoff has been executed with a condition of the active plan that the
\* draft, edited since, no longer holds
C26_Witness ==
    /\ handoffReason # Null
    /\ callStatus = "handoff"
    /\ handoffReason[1] \in Elems(activePlan.handoffConditions)
    /\ handoffReason[1] \notin Elems(draftPlan.handoffConditions)

\* positions of the active plan's points with the given delivered flag
Flagged(flag) ==
    {i \in 1..Len(activePlan.talkingPoints) :
        activePlan.talkingPoints[i].delivered = flag}

\* C27: in every reachable state the completed count is the number of
\* active-plan points with delivered true and lies between 0 and the number
\* of points; the next talking point is absent exactly when the count
\* equals the number of points, and otherwise it is the undelivered point
\* of lowest position.
C27_DerivedValues ==
    /\ completedTalkingPoints = Cardinality(Flagged(TRUE))
    /\ 0 <= completedTalkingPoints
    /\ completedTalkingPoints <= Len(activePlan.talkingPoints)
    /\ nextTalkingPoint = Null
           <=> completedTalkingPoints = Len(activePlan.talkingPoints)
    /\ nextTalkingPoint # Null
           => \E i \in Flagged(FALSE) :
                 /\ \A j \in Flagged(FALSE) : i <= j
                 /\ nextTalkingPoint = Some(activePlan.talkingPoints[i])

\* the first and the last of three points are delivered: the count is 2 and
\* the next point is the second
C27_Witness ==
    /\ [i \in 1..Len(activePlan.talkingPoints) |->
           activePlan.talkingPoints[i].delivered] = <<TRUE, FALSE, TRUE>>
    /\ completedTalkingPoints = 2
    /\ nextTalkingPoint = Some(activePlan.talkingPoints[2])

\* C28: setConsentToSummarize leaves summaryNotes unchanged, so the notes
\* typed while consent was given stay when it is withdrawn; apart from the
\* summary input itself the only operation that changes (clears) the notes
\* is load.
C28_ConsentKeepsSummary ==
    [][ /\ lastOp'.name = "setConsentToSummarize"
            => summaryNotes' = summaryNotes
        /\ summaryNotes' # summaryNotes
            => lastOp'.name \in {"setSummaryNotes", "loadDraftToActive"}
        /\ (summaryNotes' # summaryNotes
                /\ lastOp'.name = "loadDraftToActive")
            => summaryNotes' = <<>> ]_vars

\* consent was given, a summary typed and the consent withdrawn: the
\* summary is still there
C28_Witness ==
    /\ lastOp.name = "setConsentToSummarize"
    /\ ~consentToSummarize
    /\ summaryNotes # <<>>

=============================================================================
